---- MODULE Spec2Model ----
(***************************************************************************)
(* Model of thumbservice/thumbservice.py: the request handlers, the        *)
(* eligibility check, the cache key, the remote fetcher, band selection,   *)
(* alignment, the Paths tracker and the generate_thumbnail pipeline with   *)
(* its finally block.                                                      *)
(*                                                                         *)
(* Conventions.                                                            *)
(*  - A file name or an object key is the sequence of its dot-separated    *)
(*    components: "a.fits.fz" is <<"a", "fits", "fz">>.                    *)
(*  - A local path is <<uuid, kind, name>>: the uuid4 of                   *)
(*    unique_temp_path_start, the kind of file and the name appended.      *)
(*  - A frame is a record with a field "keys", the set of the keys the     *)
(*    JSON object really has; the other fields hold the values.            *)
(*  - request_id 0 stands for JSON null (falsy in Python).                 *)
(***************************************************************************)
EXTENDS Integers, Sequences, FiniteSets, TLC

VARIABLES
    archive,    \* the frame record the archive API serves for the requested frame
    hashseed,   \* PYTHONHASHSEED of the serving process (str hashes depend on it)
    store,      \* keys of the objects in the bucket
    disk,       \* local paths that exist under TMP_DIR
    served,     \* number of requests accepted so far
    run,        \* run[r]: the state of the request handled in slot r
    fn          \* pure-function harness: operation, inputs and result

vars == <<archive, hashseed, store, disk, served, run, fn>>

---------------------------------------------------------------------------
(* Bounds *)

NumRuns == 2        \* request slots
MaxRequests == 2    \* requests accepted in one behaviour
MaxSeed == 1        \* hash seeds 0..MaxSeed
MaxFrames == 4      \* longest sibling listing given to rvb_frames in SpecBands
MaxParams == 2      \* longest parameter mapping given to key_for_jpeg in SpecKey
MaxSets == 3        \* calls of Paths.set on one tracker in SpecPaths
MaxPathList == 2    \* longest list given to Paths.set in SpecPaths

Runs == 1 .. NumRuns
Seeds == 0 .. MaxSeed

---------------------------------------------------------------------------
(* Small helpers *)

None == "None"

\* the status of "no response at all" (getattr(response, 'status_code', None) is None)
NoStatus == 0

SeqToSet(s) == { s[i] : i \in 1 .. Len(s) }

\* str.endswith on dot-separated components
EndsWith(name, ext) ==
    /\ Len(name) >= Len(ext)
    /\ SubSeq(name, Len(name) - Len(ext) + 1, Len(name)) = ext

\* str.upper on the configuration types of the model
Upper(s) ==
    CASE s = "expose" -> "EXPOSE"
      [] s = "bias"   -> "BIAS"
      [] OTHER        -> s

---------------------------------------------------------------------------
(* thumbservice.common.settings *)

REQUIRED_FRAME_VALIDATION_KEYS == {"configuration_type", "request_id", "filename"}

VALID_CONFIGURATION_TYPES == {"EXPOSE", "SPECTRUM"}

VALID_CONFIGURATION_TYPES_FOR_COLOR_THUMBS == {"EXPOSE"}

---------------------------------------------------------------------------
(* ThumbnailAppException and get_response *)

NoPayload == [url |-> None, params |-> None, response |-> None]

\* ThumbnailAppException(message, status_code, payload); status_code defaults to 500
ThumbnailAppException(message, status_code, payload) ==
    [type |-> "ThumbnailAppException", message |-> message,
     status_code |-> IF status_code = NoStatus THEN 500 ELSE status_code,
     payload |-> payload]

\* any other exception: Flask answers 500
OtherException(what) ==
    [type |-> "Exception", message |-> what, status_code |-> 500,
     payload |-> NoPayload]

NoExc == [type |-> None, message |-> None, status_code |-> NoStatus, payload |-> NoPayload]

\* What requests.get / raise_for_status can do:
\*   "ok"         a response with a status below 400
\*   "timeout"    requests.exceptions.Timeout, no response
\*   "noresponse" another RequestException raised by requests.get
\*   "http"       a response with status 400..599: raise_for_status raises HTTPError;
\*                json tells whether response.json() parses
UpstreamErrorStatuses == {400, 403, 404, 500, 503, 599}

FetchOutcomes ==
    { [kind |-> "ok", status |-> 200, json |-> TRUE],
      [kind |-> "timeout", status |-> NoStatus, json |-> FALSE],
      [kind |-> "noresponse", status |-> NoStatus, json |-> FALSE] }
    \cup { [kind |-> "http", status |-> s, json |-> j] :
             s \in UpstreamErrorStatuses, j \in BOOLEAN }

\* get_response: NoExc when the response is returned, else the exception raised
get_response_500_only(url, params, o) ==
    IF o.kind = "ok" THEN NoExc
    ELSE IF o.kind = "timeout"
    THEN ThumbnailAppException("Timeout while accessing resource", 504,
                               [url |-> url, params |-> params, response |-> None])
    ELSE LET status_code == IF o.kind = "noresponse" THEN NoStatus ELSE o.status
         IN  IF status_code = NoStatus \/ status_code = 500
             THEN ThumbnailAppException("Got error response", 502, NoPayload)
             ELSE IF status_code = 404
             THEN ThumbnailAppException("Not found", 404, NoPayload)
             ELSE ThumbnailAppException("Got error response", status_code,
                    [NoPayload EXCEPT !.response = IF o.json THEN "json" ELSE None])

get_response(url, params, o) ==
    IF o.kind = "ok" THEN NoExc
    ELSE IF o.kind = "timeout"
    THEN ThumbnailAppException("Timeout while accessing resource", 504,
                               [url |-> url, params |-> params, response |-> None])
    ELSE LET status_code == IF o.kind = "noresponse" THEN NoStatus ELSE o.status
         IN  IF status_code = NoStatus \/ (500 <= status_code /\ status_code < 600)
             THEN ThumbnailAppException("Got error response", 502, NoPayload)
             ELSE IF status_code = 404
             THEN ThumbnailAppException("Not found", 404, NoPayload)
             ELSE ThumbnailAppException("Got error response", status_code,
                    [NoPayload EXCEPT !.response = IF o.json THEN "json" ELSE None])

---------------------------------------------------------------------------
(* can_generate_thumbnail_on *)

\* request.args.get(name, default); an absent argument is None
ArgGet(args, name, default) == IF args[name] = None THEN default ELSE args[name]

FitsExtensions == { <<"fits">>, <<"fits", "fz">> }

can_generate_thumbnail_on(frame, args) ==
    IF ~(REQUIRED_FRAME_VALIDATION_KEYS \subseteq frame.keys)
    THEN [result |-> FALSE, reason |-> "Cannot generate thumbnail for given frame"]
    ELSE LET configuration_type == Upper(frame.configuration_type)
             request_id == frame.request_id
             is_color_request == ArgGet(args, "color", "false") = "true"
             is_fits_file == \E ext \in FitsExtensions : EndsWith(frame.filename, ext)
         IN  IF configuration_type \notin VALID_CONFIGURATION_TYPES
             THEN [result |-> FALSE,
                   reason |-> "Cannot generate thumbnail for configuration_type"]
             ELSE IF is_color_request /\ request_id = 0
             THEN [result |-> FALSE,
                   reason |-> "Cannot generate color thumbnail for a frame that does not have a request"]
             ELSE IF is_color_request
                     /\ configuration_type \notin VALID_CONFIGURATION_TYPES_FOR_COLOR_THUMBS
             THEN [result |-> FALSE,
                   reason |-> "Cannot generate color thumbnail for configuration_type"]
             ELSE IF ~is_fits_file
             THEN [result |-> FALSE,
                   reason |-> "Cannot generate thumbnail for non FITS-type frame"]
             ELSE [result |-> TRUE, reason |-> ""]

---------------------------------------------------------------------------
(* key_for_jpeg                                                            *)
(* A parameter mapping is the sequence of its items <<name, value>> in     *)
(* insertion order; every value is an integer (False/True are 0/1, None is *)
(* 0, 99.5 is 995 tenths).                                                 *)
(* repr(frozenset(items)) lists the items in the order of the set's hash   *)
(* table.  An item's slot comes from its hash, the hash of a str depends   *)
(* on the process's hash seed, and an item that finds its slot taken       *)
(* moves on to the next one, so that order depends on the seed and on the  *)
(* insertion order.                                                        *)

ParamNames == <<"width", "height", "label_text", "color", "median", "percentile", "quality">>

SetSlots == 8

Empty == << >>

NameNo(name) == CHOOSE i \in 1 .. Len(ParamNames) : ParamNames[i] = name

\* hash(str) under a hash seed
StrHash(seed, name) == (NameNo(name) * (2 * seed + 1) + 5 * seed) % SetSlots

\* hash((name, value))
ItemHash(seed, item) == (StrHash(seed, item[1]) + 3 * item[2]) % SetSlots

RECURSIVE Probe(_, _, _)
Probe(table, item, i) ==
    IF table[i] = Empty \/ table[i] = item THEN i
    ELSE Probe(table, item, (i + 1) % SetSlots)

SetAdd(table, item, seed) ==
    [table EXCEPT ![Probe(table, item, ItemHash(seed, item))] = item]

RECURSIVE FrozenSet(_, _)
FrozenSet(items, seed) ==
    IF items = << >> THEN [i \in 0 .. SetSlots - 1 |-> Empty]
    ELSE SetAdd(FrozenSet(SubSeq(items, 1, Len(items) - 1), seed),
                items[Len(items)], seed)

RECURSIVE TableItems(_, _)
TableItems(table, i) ==
    IF i = SetSlots THEN << >>
    ELSE (IF table[i] = Empty THEN << >> ELSE <<table[i]>>) \o TableItems(table, i + 1)

\* repr(frozenset(params.items()))
Repr(items, seed) == TableItems(FrozenSet(items, seed), 0)

\* hashlib.blake2b(text, digest_size=20).hexdigest(), taken as collision-free:
\* the digest of a text is the text under the tag of the hash function
Blake2b(text) == <<"blake2b-20", text>>

key_for_jpeg(frame_id, params, seed) ==
    <<frame_id, Blake2b(Repr(params, seed)), "jpg">>

---------------------------------------------------------------------------
(* rvb_frames *)

BandOrder == <<"red", "visual", "blue">>

FILTERS_FOR_COLORS(color) ==
    CASE color = "red"    -> {"R", "rp"}
      [] color = "visual" -> {"V"}
      [] color = "blue"   -> {"B"}

Matching(frames, color) ==
    { i \in 1 .. Len(frames) :
        frames[i].primary_optical_element \in FILTERS_FOR_COLORS(color) }

Min(S) == CHOOSE x \in S : \A y \in S : x <= y

Max(S) == CHOOSE x \in S : \A y \in S : x >= y

\* next(f for f in frames if f['primary_optical_element'] in FILTERS_FOR_COLORS[color])
LastMatching(frames, color) == frames[Max(Matching(frames, color))]

NextMatching(frames, color) == frames[Min(Matching(frames, color))]

\* [exc, frames]: the exception raised, or NoExc and the selected frames
rvb_frames_blue_first(frames) ==
    IF \E c \in 1 .. Len(BandOrder) : Matching(frames, BandOrder[c]) = {}
    THEN [exc |-> ThumbnailAppException("RVB frames not found", 404, NoPayload),
          frames |-> << >>]
    ELSE [exc |-> NoExc,
          frames |-> [c \in 1 .. Len(BandOrder) |->
                         NextMatching(frames, BandOrder[Len(BandOrder) + 1 - c])]]

rvb_frames(frames) ==
    IF \E c \in 1 .. Len(BandOrder) : Matching(frames, BandOrder[c]) = {}
    THEN [exc |-> ThumbnailAppException("RVB frames not found", 404, NoPayload),
          frames |-> << >>]
    ELSE [exc |-> NoExc,
          frames |-> [c \in 1 .. Len(BandOrder) |-> NextMatching(frames, BandOrder[c])]]

---------------------------------------------------------------------------
(* class Paths *)

NewPaths == [all_paths |-> {}, paths |-> << >>]

PathsSetForgetting(p, paths) == [all_paths |-> SeqToSet(paths), paths |-> paths]

PathsSet(p, paths) ==
    [all_paths |-> p.all_paths \cup SeqToSet(paths), paths |-> paths]

---------------------------------------------------------------------------
(* reproject_files, lines 204-212 *)

\* the aligned images os.remove deletes: all of them unless there are exactly 2
AlignedRemovedNone(aligned_images) == {}

AlignedRemovedAll(aligned_images) == SeqToSet(aligned_images)

AlignedRemoved(aligned_images) ==
    IF Len(aligned_images) # 2 THEN SeqToSet(aligned_images) ELSE {}

\* aligned_images after the clean-up loop has popped them
AlignedKept(aligned_images) ==
    IF Len(aligned_images) # 2 THEN << >> ELSE aligned_images

ReprojectResult(ref_image, images_to_align, aligned_images) ==
    LET reprojected_file_list == <<ref_image>> \o AlignedKept(aligned_images)
    IN  IF Len(reprojected_file_list) = 3 THEN reprojected_file_list
        ELSE images_to_align

---------------------------------------------------------------------------
(* The archive, the requests and a run's local state *)

AllFrameKeys ==
    {"id", "request_id", "filename", "url", "configuration_type",
     "primary_optical_element", "proposal_id"}

BaseFrame ==
    [keys |-> AllFrameKeys, id |-> 1, request_id |-> 7,
     filename |-> <<"a", "fits", "fz">>, url |-> "url-a",
     configuration_type |-> "EXPOSE", primary_optical_element |-> "rp",
     proposal_id |-> "prop"]

ConfigurationTypes == {"EXPOSE", "expose", "SPECTRUM", "BIAS"}

Filenames == { <<"a", "fits", "fz">>, <<"a", "fits">>, <<"a", "jpg">>, <<"a", "fz">> }

\* what the archive can hold for the requested frame
ArchiveFrames ==
    { [BaseFrame EXCEPT !.configuration_type = c, !.request_id = q, !.filename = f] :
        c \in ConfigurationTypes, q \in {0, 7}, f \in Filenames }
    \cup { [BaseFrame EXCEPT !.keys = AllFrameKeys \ {k}] :
             k \in REQUIRED_FRAME_VALIDATION_KEYS }

SiblingNames == <<"s1", "s2", "s3", "s4">>

Sibling(i, poe) ==
    [BaseFrame EXCEPT !.id = 10 + i, !.primary_optical_element = poe,
                      !.filename = <<SiblingNames[i], "fits", "fz">>,
                      !.url = SiblingNames[i]]

\* what the archive can list for a request at reduction level 91
Listings ==
    { <<Sibling(1, "V"), Sibling(2, "B"), Sibling(3, "rp"), Sibling(4, "R")>>,
      <<Sibling(1, "R"), Sibling(2, "V")>> }

\* values of the color query argument; None is "not given"
ColorArgs == {None, "false", "true", "1"}

NoFrame == [BaseFrame EXCEPT !.keys = {}]
NoPath == << >>
NoKey == << >>

IdleRun ==
    [pc |-> "idle", reqno |-> 0, args |-> [color |-> None],
     frame |-> NoFrame, color |-> FALSE, key |-> NoKey, hit |-> FALSE,
     paths |-> NewPaths, jpg_path |-> NoPath,
     reqnum_frames |-> << >>, todo |-> << >>, saved |-> << >>,
     ids |-> << >>, i |-> 0, aligned_images |-> << >>,
     exc |-> NoExc, url |-> NoKey, warned |-> FALSE, frames_count |-> << >>,
     calls |-> << >>, created |-> {}, nuuid |-> 0]

\* unique_temp_path_start: a uuid4 never repeats; it is the pair of the request's
\* serial number and the number of the call within the request
TempPathNoUuid(rs, kind, name) == << <<0, 0>>, kind, name >>

TempPath(rs, kind, name) == << <<rs.reqno, rs.nuuid + 1>>, kind, name >>

\* the exception leaves the handler: Flask turns it into the error response
Raise(rs, e) == [rs EXCEPT !.pc = "raised", !.exc = e]

\* the exception leaves the try block of generate_thumbnail: finally runs first
RaiseSkippingFinally(rs, e) == [rs EXCEPT !.pc = "raised", !.exc = e]

RaiseInTry(rs, e) == [rs EXCEPT !.pc = "cleanup", !.exc = e]

Call(rs, what) == [rs EXCEPT !.calls = Append(@, what)]

Init ==
    /\ archive \in ArchiveFrames
    /\ hashseed \in Seeds
    /\ store = {}
    /\ disk = {}
    /\ served = 0
    /\ run = [r \in Runs |-> IdleRun]
    /\ fn = [op |-> "none"]

---------------------------------------------------------------------------
(* The request handlers *)

\* a request arrives and Flask routes it; requests are served one at a time, by
\* the slots in turn
Begin(r) ==
    /\ \A q \in Runs : run[q].pc = "idle"
    /\ served < MaxRequests
    /\ r = (served % NumRuns) + 1
    /\ \E c \in ColorArgs, route \in {"thumbnail", "bn_thumbnail"} :
         run' = [run EXCEPT ![r] =
                    [IdleRun EXCEPT !.pc = route, !.args = [color |-> c],
                                    !.reqno = served + 1]]
    /\ served' = served + 1
    /\ UNCHANGED <<archive, hashseed, store, disk, fn>>

\* thumbnail(frame_id), lines 293-300
thumbnail(r) ==
    /\ run[r].pc = "thumbnail"
    /\ \E o \in FetchOutcomes :
         LET rs == Call(run[r], "GET frames/id/")
             e  == get_response("frames/id/", None, o)
         IN  run' = [run EXCEPT ![r] =
                        IF e # NoExc THEN Raise(rs, e)
                        ELSE [rs EXCEPT !.pc = "handle_response", !.frame = archive]]
    /\ UNCHANGED <<archive, hashseed, store, disk, served, fn>>

\* bn_thumbnail(frame_basename), lines 279-290
bn_thumbnail(r) ==
    /\ run[r].pc = "bn_thumbnail"
    /\ \E o \in FetchOutcomes, count \in 0 .. 2 :
         LET rs == Call(run[r], "GET frames/?basename_exact")
             e  == get_response("frames/", "basename_exact", o)
         IN  run' = [run EXCEPT ![r] =
                        IF e # NoExc THEN Raise(rs, e)
                        ELSE IF ~(count = 1)
                        THEN Raise([rs EXCEPT !.frames_count = <<count>>],
                                   ThumbnailAppException("Not found", 404, NoPayload))
                        ELSE [rs EXCEPT !.frames_count = <<count>>,
                                        !.pc = "handle_response", !.frame = archive]]
    /\ UNCHANGED <<archive, hashseed, store, disk, served, fn>>

\* handle_response, lines 267-272
handle_response_unchecked(r) ==
    /\ run[r].pc = "handle_response"
    /\ run' = [run EXCEPT ![r] = [@ EXCEPT !.pc = "generate_thumbnail"]]
    /\ UNCHANGED <<archive, hashseed, store, disk, served, fn>>

handle_response(r) ==
    /\ run[r].pc = "handle_response"
    /\ LET c == can_generate_thumbnail_on(run[r].frame, run[r].args)
       IN  run' = [run EXCEPT ![r] =
                      IF ~c.result
                      THEN Raise(@, ThumbnailAppException(c.reason, 400, NoPayload))
                      ELSE [@ EXCEPT !.pc = "generate_thumbnail"]]
    /\ UNCHANGED <<archive, hashseed, store, disk, served, fn>>

\* the response (or the error response) is sent and the slot is free again
respond(r) ==
    /\ run[r].pc \in {"returned", "raised"}
    /\ run' = [run EXCEPT ![r] = IdleRun]
    /\ UNCHANGED <<archive, hashseed, store, disk, served, fn>>

---------------------------------------------------------------------------
(* generate_thumbnail *)

\* the params dict of lines 232-240, in insertion order
Params(args) ==
    << <<"width", 200>>, <<"height", 200>>, <<"label_text", 0>>,
       <<"color", IF ArgGet(args, "color", "false") # "false" THEN 1 ELSE 0>>,
       <<"median", 0>>, <<"percentile", 995>>, <<"quality", 80>> >>

ParamColor(args) == ArgGet(args, "color", "false") # "false"

\* key_exists: head_object succeeds or anything it raises is swallowed
key_exists_when_stored(key, objects, head_raises) == key \in objects

key_exists(key, objects, head_raises) == ~head_raises /\ key \in objects

\* where generate_thumbnail goes after the cache check, lines 242-253
AfterCacheCheckNoReturn(exists, color) ==
    IF color THEN "frames_for_requestnum" ELSE "save_temp_file"

AfterCacheCheck(exists, color) ==
    IF exists THEN "generate_url"
    ELSE IF color THEN "frames_for_requestnum" ELSE "save_temp_file"

\* lines 232-246: the key, the cache check and the set-up of the miss path
generate_thumbnail(r) ==
    /\ run[r].pc = "generate_thumbnail"
    /\ \E head_raises \in BOOLEAN :
         LET key == key_for_jpeg(run[r].frame.id, Params(run[r].args), hashseed)
             rs  == [Call(run[r], "head_object")
                        EXCEPT !.key = key, !.color = ParamColor(run[r].args)]
         IN  run' = [run EXCEPT ![r] =
                        [rs EXCEPT !.hit = key_exists(key, store, head_raises),
                                   !.todo = IF rs.color THEN << >> ELSE <<rs.frame>>,
                                   !.pc = AfterCacheCheck(
                                              key_exists(key, store, head_raises),
                                              rs.color)]]
    /\ UNCHANGED <<archive, hashseed, store, disk, served, fn>>

\* frames_for_requestnum(frame['request_id'], request, reduction_level=91), line 252
frames_for_requestnum(r) ==
    /\ run[r].pc = "frames_for_requestnum"
    /\ \E o \in FetchOutcomes, listing \in Listings :
         LET rs == Call(run[r], "GET frames/?request_id&reduction_level=91")
             e  == get_response("frames/", "request_id,reduction_level=91", o)
         IN  run' = [run EXCEPT ![r] =
                        IF e # NoExc THEN RaiseInTry(rs, e)
                        ELSE [rs EXCEPT !.reqnum_frames = listing, !.pc = "rvb_frames"]]
    /\ UNCHANGED <<archive, hashseed, store, disk, served, fn>>

\* rvb_frames(reqnum_frames), line 253
select_rvb_frames(r) ==
    /\ run[r].pc = "rvb_frames"
    /\ LET sel == rvb_frames(run[r].reqnum_frames)
       IN  run' = [run EXCEPT ![r] =
                      IF sel.exc # NoExc THEN RaiseInTry(@, sel.exc)
                      ELSE [@ EXCEPT !.todo = sel.frames, !.pc = "save_temp_file"]]
    /\ UNCHANGED <<archive, hashseed, store, disk, served, fn>>

\* save_temp_file(frame), lines 109-113, for the next frame of lines 249 / 253;
\* after the last one paths.set(...) registers the saved files
save_temp_file_retrying(r) ==
    /\ run[r].pc = "save_temp_file"
    /\ \E o \in FetchOutcomes :
         LET frame == run[r].todo[Len(run[r].saved) + 1]
             path  == TempPath(run[r], "frame", frame.filename)
             rs    == [Call(run[r], "GET raw")
                          EXCEPT !.nuuid = @ + 1, !.created = @ \cup {path}]
             e     == get_response(frame.url, None, o)
             saved == Append(rs.saved, path)
         IN  /\ disk' = disk \cup {path}
             /\ run' = [run EXCEPT ![r] =
                          IF e # NoExc /\ rs.nuuid < 3 THEN rs
                          ELSE IF e # NoExc THEN RaiseInTry(rs, e)
                          ELSE IF Len(saved) < Len(rs.todo)
                          THEN [rs EXCEPT !.saved = saved]
                          ELSE [rs EXCEPT !.saved = saved,
                                          !.paths = PathsSet(rs.paths, saved),
                                          !.pc = IF rs.color THEN "make_transforms"
                                                 ELSE "convert_to_jpg"]]
    /\ UNCHANGED <<archive, hashseed, store, served, fn>>

save_temp_file(r) ==
    /\ run[r].pc = "save_temp_file"
    /\ \E o \in FetchOutcomes :
         LET frame == run[r].todo[Len(run[r].saved) + 1]
             path  == TempPath(run[r], "frame", frame.filename)
             rs    == [Call(run[r], "GET raw")
                          EXCEPT !.nuuid = @ + 1, !.created = @ \cup {path}]
             e     == get_response(frame.url, None, o)
             saved == Append(rs.saved, path)
         IN  /\ disk' = disk \cup {path}
             /\ run' = [run EXCEPT ![r] =
                          IF e # NoExc THEN RaiseInTry(rs, e)
                          ELSE IF Len(saved) < Len(rs.todo)
                          THEN [rs EXCEPT !.saved = saved]
                          ELSE [rs EXCEPT !.saved = saved,
                                          !.paths = PathsSet(rs.paths, saved),
                                          !.pc = IF rs.color THEN "make_transforms"
                                                 ELSE "convert_to_jpg"]]
    /\ UNCHANGED <<archive, hashseed, store, served, fn>>

---------------------------------------------------------------------------
(* reproject_files(paths.paths[0], paths.paths), line 254 *)

\* the except clause of lines 201-202: the error is logged as a warning and
\* reproject_files goes on to its clean-up
AlignmentErrorPropagates(rs) ==
    RaiseInTry([rs EXCEPT !.warned = TRUE], OtherException("alignment"))

AlignmentError(rs) == [rs EXCEPT !.warned = TRUE, !.pc = "reproject_return"]

\* make_transforms(ref_image, images_to_align[1:3]), line 196: it raises, or gives
\* one identification per image, each ok or not
make_transforms(r) ==
    /\ run[r].pc = "make_transforms"
    /\ \E raises \in BOOLEAN, ok \in [1 .. 2 -> BOOLEAN] :
         LET rs == [Call(run[r], "make_transforms") EXCEPT !.aligned_images = << >>]
         IN  run' = [run EXCEPT ![r] =
                        IF raises THEN AlignmentError(rs)
                        ELSE [rs EXCEPT !.ids = ok, !.i = 1, !.pc = "affineremap"]]
    /\ UNCHANGED <<archive, hashseed, store, disk, served, fn>>

\* affineremap writes the aligned copy of its input under outdir, named after it
AlignedPath(path) == <<path[1], "aligned", path[3]>>

\* one turn of the loop of lines 197-200, for identification i
affineremap(r) ==
    /\ run[r].pc = "affineremap"
    /\ \E raises \in BOOLEAN :
         LET rs   == run[r]
             ukn  == rs.paths.paths[rs.i + 1]
             next == IF rs.i = Len(rs.ids) THEN "reproject_return" ELSE "affineremap"
         IN  IF ~rs.ids[rs.i]
             THEN /\ ~raises
                  /\ run' = [run EXCEPT ![r] = [rs EXCEPT !.i = @ + 1, !.pc = next]]
                  /\ disk' = disk
             ELSE IF raises
             THEN /\ run' = [run EXCEPT ![r] = AlignmentError(Call(rs, "affineremap"))]
                  /\ disk' = disk
             ELSE /\ run' = [run EXCEPT ![r] =
                               [Call(rs, "affineremap")
                                  EXCEPT !.aligned_images = Append(@, AlignedPath(ukn)),
                                         !.created = @ \cup {AlignedPath(ukn)},
                                         !.i = @ + 1, !.pc = next]]
                  /\ disk' = disk \cup {AlignedPath(ukn)}
    /\ UNCHANGED <<archive, hashseed, store, served, fn>>

\* lines 204-212, then paths.set(...) of line 254
reproject_return(r) ==
    /\ run[r].pc = "reproject_return"
    /\ LET rs     == run[r]
           result == ReprojectResult(rs.paths.paths[1], rs.paths.paths, rs.aligned_images)
       IN  /\ disk' = disk \ AlignedRemoved(rs.aligned_images)
           /\ run' = [run EXCEPT ![r] =
                        [rs EXCEPT !.aligned_images = AlignedKept(@),
                                   !.paths = PathsSet(@, result),
                                   !.pc = "convert_to_jpg"]]
    /\ UNCHANGED <<archive, hashseed, store, served, fn>>

---------------------------------------------------------------------------
(* convert, upload, finally *)

\* fits_to_jpg: it writes the JPEG, or raises before it has opened the output, or
\* raises with the output partly written; it cannot read an input that is missing
ConvertOutcomes == {"ok", "raises", "raises_after_write"}

\* convert_to_jpg(paths.paths, key, **params), lines 120-123 and 255
convert_to_jpg(r) ==
    /\ run[r].pc = "convert_to_jpg"
    /\ \E o \in ConvertOutcomes :
         LET jpg_path == TempPath(run[r], "jpg", run[r].key)
             rs == [Call(run[r], "fits_to_jpg") EXCEPT !.nuuid = @ + 1]
             readable == SeqToSet(rs.paths.paths) \subseteq disk
         IN  IF o = "raises" \/ ~readable
             THEN /\ run' = [run EXCEPT ![r] =
                               RaiseInTry(rs, OtherException("fits_to_jpg"))]
                  /\ disk' = disk
             ELSE /\ disk' = disk \cup {jpg_path}
                  /\ run' = [run EXCEPT ![r] =
                               IF o = "ok"
                               THEN [rs EXCEPT !.jpg_path = jpg_path,
                                               !.created = @ \cup {jpg_path},
                                               !.pc = "upload_to_s3"]
                               ELSE RaiseInTry([rs EXCEPT !.created = @ \cup {jpg_path}],
                                               OtherException("fits_to_jpg"))]
    /\ UNCHANGED <<archive, hashseed, store, served, fn>>

\* upload_to_s3(key, jpg_path), lines 137-145 and 256
upload_to_s3_create_only(r) ==
    /\ run[r].pc = "upload_to_s3"
    /\ \E raises \in BOOLEAN :
         LET rs == Call(run[r], "put_object")
         IN  IF raises \/ rs.jpg_path \notin disk \/ rs.key \in store
             THEN /\ run' = [run EXCEPT ![r] = RaiseInTry(rs, OtherException("put_object"))]
                  /\ store' = store
             ELSE /\ run' = [run EXCEPT ![r] = [rs EXCEPT !.pc = "cleanup"]]
                  /\ store' = store \cup {rs.key}
    /\ UNCHANGED <<archive, hashseed, disk, served, fn>>

upload_to_s3(r) ==
    /\ run[r].pc = "upload_to_s3"
    /\ \E raises \in BOOLEAN :
         LET rs == Call(run[r], "put_object")
         IN  IF raises \/ rs.jpg_path \notin disk
             THEN /\ run' = [run EXCEPT ![r] = RaiseInTry(rs, OtherException("put_object"))]
                  /\ store' = store
             ELSE /\ run' = [run EXCEPT ![r] = [rs EXCEPT !.pc = "cleanup"]]
                  /\ store' = store \cup {rs.key}
    /\ UNCHANGED <<archive, hashseed, disk, served, fn>>

\* the paths the finally block removes, lines 259-263
CleanupTargetsWorkingSet(rs) ==
    (IF rs.jpg_path # NoPath THEN {rs.jpg_path} ELSE {}) \cup SeqToSet(rs.paths.paths)

CleanupTargetsNoJpg(rs) == rs.paths.all_paths

CleanupTargets(rs) ==
    (IF rs.jpg_path # NoPath THEN {rs.jpg_path} ELSE {}) \cup rs.paths.all_paths

\* the finally block, lines 257-263; a pending exception goes on to the caller
cleanup(r) ==
    /\ run[r].pc = "cleanup"
    /\ disk' = disk \ CleanupTargets(run[r])
    /\ run' = [run EXCEPT ![r] =
                 [@ EXCEPT !.pc = IF run[r].exc # NoExc THEN "raised"
                                  ELSE "generate_url"]]
    /\ UNCHANGED <<archive, hashseed, store, served, fn>>

\* generate_url(key), lines 148-154, called at line 243 or 264
generate_url(r) ==
    /\ run[r].pc = "generate_url"
    /\ run' = [run EXCEPT ![r] =
                 [Call(@, "generate_presigned_url")
                    EXCEPT !.url = run[r].key, !.pc = "returned"]]
    /\ UNCHANGED <<archive, hashseed, store, disk, served, fn>>

---------------------------------------------------------------------------

Next ==
    \E r \in Runs :
        \/ Begin(r)
        \/ thumbnail(r)
        \/ bn_thumbnail(r)
        \/ handle_response(r)
        \/ generate_thumbnail(r)
        \/ frames_for_requestnum(r)
        \/ select_rvb_frames(r)
        \/ save_temp_file(r)
        \/ make_transforms(r)
        \/ affineremap(r)
        \/ reproject_return(r)
        \/ convert_to_jpg(r)
        \/ upload_to_s3(r)
        \/ cleanup(r)
        \/ generate_url(r)
        \/ respond(r)

Spec == Init /\ [][Next]_vars

---------------------------------------------------------------------------
(* Pure functions applied to bounded inputs.  In these specifications no   *)
(* request is served: fn holds the inputs, and the action puts the result  *)
(* beside them.                                                            *)

InitRest ==
    /\ archive = BaseFrame
    /\ hashseed = 0
    /\ store = {}
    /\ disk = {}
    /\ served = 0
    /\ run = [r \in Runs |-> IdleRun]

RestUnchanged == UNCHANGED <<archive, hashseed, store, disk, served, run>>

\* get_response on every outcome of the upstream call

FetchStatuses == {400, 401, 403, 404, 409, 429, 499, 500, 501, 502, 503, 504, 599}

AllFetchOutcomes ==
    FetchOutcomes
    \cup { [kind |-> "http", status |-> s, json |-> j] :
             s \in FetchStatuses, j \in BOOLEAN }

FetchUrls == {"frames/", "frames/id/", "url-a"}

FetchParams == {None, "basename_exact", "request_id,reduction_level=91"}

InitFetch ==
    /\ InitRest
    /\ fn \in [op : {"get_response"}, url : FetchUrls, params : FetchParams,
               o : AllFetchOutcomes, done : {FALSE}, exc : {NoExc}]

ApplyGetResponse ==
    /\ fn.op = "get_response" /\ ~fn.done
    /\ fn' = [fn EXCEPT !.done = TRUE, !.exc = get_response(fn.url, fn.params, fn.o)]
    /\ RestUnchanged

SpecFetch == InitFetch /\ [][ApplyGetResponse]_vars

\* rvb_frames on every listing of at most MaxFrames frames

OpticalElements == {"R", "rp", "V", "B", "I"}

ListedFrame(i, poe) == [BaseFrame EXCEPT !.id = i, !.primary_optical_element = poe]

BandListings ==
    UNION { { [i \in 1 .. n |-> ListedFrame(i, poes[i])] : poes \in [1 .. n -> OpticalElements] } :
            n \in 0 .. MaxFrames }

InitBands ==
    /\ InitRest
    /\ fn \in [op : {"rvb_frames"}, frames : BandListings, done : {FALSE},
               out : {[exc |-> NoExc, frames |-> << >>]}]

ApplyRvbFrames ==
    /\ fn.op = "rvb_frames" /\ ~fn.done
    /\ fn' = [fn EXCEPT !.done = TRUE, !.out = rvb_frames(fn.frames)]
    /\ RestUnchanged

SpecBands == InitBands /\ [][ApplyRvbFrames]_vars

\* key_for_jpeg, called twice: in a process with hash seed seed_a on the mapping a
\* and in a process with hash seed seed_b on the mapping b

KeyNames == {"width", "color", "quality"}

KeyValues == {0, 1}

KeyFrameIds == {1, 2}

\* the mappings of n items: distinct names, in every insertion order
MappingsOf(n) ==
    { m \in [1 .. n -> KeyNames \X KeyValues] :
        \A i, j \in 1 .. n : i # j => m[i][1] # m[j][1] }

Mappings == UNION { MappingsOf(n) : n \in 0 .. MaxParams }

InitKey ==
    /\ InitRest
    /\ fn \in [op : {"key_for_jpeg"}, id_a : KeyFrameIds, id_b : KeyFrameIds,
               a : Mappings, b : Mappings, seed_a : Seeds, seed_b : Seeds,
               done : {FALSE}, key_a : {NoKey}, key_b : {NoKey}]

ApplyKeyForJpeg ==
    /\ fn.op = "key_for_jpeg" /\ ~fn.done
    /\ fn' = [fn EXCEPT !.done = TRUE,
                        !.key_a = key_for_jpeg(fn.id_a, fn.a, fn.seed_a),
                        !.key_b = key_for_jpeg(fn.id_b, fn.b, fn.seed_b)]
    /\ RestUnchanged

SpecKey == InitKey /\ [][ApplyKeyForJpeg]_vars

\* Paths.set called up to MaxSets times on one tracker, with every list of at most
\* MaxPathList paths; fn.args holds the arguments of the calls made so far

LocalPaths == {"/tmp/x", "/tmp/y"}

PathLists == UNION { [1 .. n -> LocalPaths] : n \in 0 .. MaxPathList }

InitPaths ==
    /\ InitRest
    /\ fn = [op |-> "Paths", p |-> NewPaths, args |-> << >>]

ApplyPathsSet ==
    /\ fn.op = "Paths" /\ Len(fn.args) < MaxSets
    /\ \E paths \in PathLists :
         fn' = [fn EXCEPT !.p = PathsSet(@, paths), !.args = Append(@, paths)]
    /\ RestUnchanged

SpecPaths == InitPaths /\ [][ApplyPathsSet]_vars

\* key_exists and the branch of lines 242-243 on every store over StoredKeys;
\* head_object raises when the key is not stored, and may raise when it is (no
\* network, no credentials)

StoredKeys == { key_for_jpeg(id, Params([color |-> c]), 0) : id \in KeyFrameIds,
                                                             c \in {None, "true"} }

InitHead ==
    /\ InitRest
    /\ fn \in [op : {"key_exists"}, key : StoredKeys, objects : SUBSET StoredKeys,
               head_raises : BOOLEAN, color : BOOLEAN, done : {FALSE},
               exists : {FALSE}, next : {None}]

ApplyKeyExists ==
    /\ fn.op = "key_exists" /\ ~fn.done
    /\ LET exists == key_exists(fn.key, fn.objects, fn.head_raises)
       IN  fn' = [fn EXCEPT !.done = TRUE, !.exists = exists,
                            !.next = AfterCacheCheck(exists, fn.color)]
    /\ RestUnchanged

SpecHead == InitHead /\ [][ApplyKeyExists]_vars

---------------------------------------------------------------------------
(* Two requests in flight together, as two threads or two worker processes  *)
(* of the service run them: every step of one may come between two steps of *)
(* the other.  Both ask for the frame BaseFrame; one hash seed stands for   *)
(* workers that were started with the same PYTHONHASHSEED.                  *)

Racers == {1, 2}

RaceColorArgs == {None, "true"}

InitRace ==
    /\ archive = BaseFrame
    /\ hashseed \in Seeds
    /\ store = {}
    /\ disk = {}
    /\ served = 0
    /\ run = [r \in Runs |-> IdleRun]
    /\ fn = [op |-> "none"]

\* the requests arrive in the order of their numbers, the second at any time after
\* the first
BeginRace(r) ==
    /\ r \in Racers
    /\ r = served + 1
    /\ run[r].pc = "idle"
    /\ \E c \in RaceColorArgs :
         run' = [run EXCEPT ![r] =
                    [IdleRun EXCEPT !.pc = "thumbnail", !.args = [color |-> c],
                                    !.reqno = served + 1]]
    /\ served' = served + 1
    /\ UNCHANGED <<archive, hashseed, store, disk, fn>>

\* one step of the run r
RunStep(r) ==
    \/ thumbnail(r)
    \/ handle_response(r)
    \/ generate_thumbnail(r)
    \/ frames_for_requestnum(r)
    \/ select_rvb_frames(r)
    \/ save_temp_file(r)
    \/ make_transforms(r)
    \/ affineremap(r)
    \/ reproject_return(r)
    \/ convert_to_jpg(r)
    \/ upload_to_s3(r)
    \/ cleanup(r)
    \/ generate_url(r)

\* the runs stay where they ended, returned or raised
NextRace ==
    \E r \in Racers :
        \/ BeginRace(r)
        \/ RunStep(r)

SpecRace == InitRace /\ [][NextRace]_vars

---------------------------------------------------------------------------
(* Properties *)

LookupCalls == {"GET frames/id/", "GET frames/?basename_exact"}

Finished(r) == run[r].pc \in {"returned", "raised"}

FrameLoaded(r) == run[r].frame # NoFrame

\* the local files the run has created that are aligned copies
AlignedCreated(r) == { p \in run[r].created : p[2] = "aligned" }

\* every path the run has passed to Paths.set
Registered(r) ==
    run[r].paths.all_paths \cup SeqToSet(run[r].paths.paths)
    \cup (IF run[r].todo # << >> /\ Len(run[r].saved) = Len(run[r].todo)
          THEN SeqToSet(run[r].saved) ELSE {})

\* C1: when generate_thumbnail has returned or raised, no path that was registered
\* in the run's Paths tracker is on disk.
RegisteredPathsRemoved ==
    \A r \in Runs : Finished(r) => Registered(r) \cap disk = {}

\* a run that failed after alignment succeeded: the 3 frame files and the 2 aligned
\* copies were registered
RegisteredPathsRemovedWitness ==
    \E r \in Runs :
        /\ run[r].pc = "raised"
        /\ Cardinality(Registered(r)) = 5
        /\ run[r].exc.message = "put_object"

\* C2: when generate_thumbnail has returned or raised, no local file the run created
\* (frame file, aligned copy, JPEG) is on disk.
NoTransientFileOutlivesRun ==
    \A r \in Runs : Finished(r) => run[r].created \cap disk = {}

\* C3: a run whose key_exists returned true goes straight to URL signing and returns:
\* after the existence check it makes no call but the signing, and creates no file.
CacheHitShortCircuits ==
    \A r \in Runs :
        run[r].hit =>
            /\ run[r].pc \in {"generate_url", "returned"}
            /\ Len(run[r].calls) \in {2, 3}
            /\ run[r].calls[1] \in LookupCalls
            /\ run[r].calls[2] = "head_object"
            /\ Len(run[r].calls) = 3 => run[r].calls[3] = "generate_presigned_url"
            /\ run[r].created = {}
            /\ run[r].paths = NewPaths
            /\ run[r].pc = "returned" =>
                   /\ Len(run[r].calls) = 3
                   /\ run[r].url = run[r].key
                   /\ run[r].exc = NoExc

CacheHitShortCircuitsWitness ==
    \E r \in Runs : run[r].hit /\ run[r].pc = "returned" /\ run[r].key \in store

\* exactly one item of a has another value in b, the names and their order being the same
OneValueChanged(a, b) ==
    /\ Len(a) = Len(b)
    /\ \A i \in 1 .. Len(a) : a[i][1] = b[i][1]
    /\ Cardinality({ i \in 1 .. Len(a) : a[i][2] # b[i][2] }) = 1

\* C4: two calls of key_for_jpeg with the same frame id and equal mappings (the same
\* items, in any insertion order, in any process) give the same key, and changing
\* the value of one parameter changes the key.
KeyDeterminism ==
    (fn.op = "key_for_jpeg" /\ fn.done) =>
        /\ (fn.id_a = fn.id_b /\ SeqToSet(fn.a) = SeqToSet(fn.b)) => fn.key_a = fn.key_b
        /\ (fn.id_a = fn.id_b /\ OneValueChanged(fn.a, fn.b)) => fn.key_a # fn.key_b

\* the request asks for a color thumbnail: its color parameter is true
ColorRequested(args) == ArgGet(args, "color", "false") # "false"

\* the conditions under which a frame is not eligible
Ineligible(frame, args) ==
    \/ ~(REQUIRED_FRAME_VALIDATION_KEYS \subseteq frame.keys)
    \/ Upper(frame.configuration_type) \notin VALID_CONFIGURATION_TYPES
    \/ ColorRequested(args) /\ frame.request_id = 0
    \/ ColorRequested(args)
         /\ Upper(frame.configuration_type) \notin VALID_CONFIGURATION_TYPES_FOR_COLOR_THUMBS
    \/ ~(EndsWith(frame.filename, <<"fits">>) \/ EndsWith(frame.filename, <<"fits", "fz">>))

\* the run has made the frame lookup and nothing else
OnlyLookupDone(r) ==
    /\ Len(run[r].calls) = 1
    /\ run[r].calls[1] \in LookupCalls
    /\ run[r].created = {}
    /\ run[r].url = NoKey

\* C5: a request for an ineligible frame is rejected with 400, a basename lookup
\* whose count is not 1 with 404, and a rejected request has made no existence check,
\* raw-bytes fetch, conversion, upload or URL signing.
IneligibleRejected ==
    \A r \in Runs :
        /\ (FrameLoaded(r) /\ Ineligible(run[r].frame, run[r].args)) =>
               /\ run[r].pc \in {"handle_response", "raised"}
               /\ run[r].pc = "raised" =>
                      run[r].exc.status_code = 400 /\ OnlyLookupDone(r)
        /\ (run[r].frames_count # << >> /\ run[r].frames_count # <<1>>) =>
               /\ run[r].pc = "raised"
               /\ run[r].exc.status_code = 404
               /\ OnlyLookupDone(r)

IsBias(r) ==
    /\ FrameLoaded(r)
    /\ "configuration_type" \in run[r].frame.keys
    /\ run[r].frame.configuration_type = "BIAS"

\* C6 as stated: a request for a BIAS frame is rejected with 400, and when it is
\* rejected no outbound network call and no disk write has been made for it.
BiasRejectedBeforeAnyIO ==
    \A r \in Runs :
        IsBias(r) =>
            /\ run[r].pc \in {"handle_response", "raised"}
            /\ run[r].pc = "raised" =>
                   /\ run[r].exc.status_code = 400
                   /\ run[r].calls = << >>
                   /\ run[r].created = {}

\* C6 amended: a request for a BIAS frame is rejected with 400, and when it is
\* rejected the one frame lookup of the route is the only outbound network call made
\* for it and no disk write has been made.
BiasRejectedAfterLookupOnly ==
    \A r \in Runs :
        IsBias(r) =>
            /\ run[r].pc \in {"handle_response", "raised"}
            /\ run[r].pc = "raised" =>
                   /\ run[r].exc.status_code = 400
                   /\ run[r].exc.type = "ThumbnailAppException"
                   /\ OnlyLookupDone(r)

BiasRejectedWitness ==
    \E r \in Runs : IsBias(r) /\ run[r].pc = "raised" /\ run[r].exc.status_code = 400

BandRed == {"R", "rp"}
BandVisual == {"V"}
BandBlue == {"B"}

HasBand(frames, band) ==
    \E i \in 1 .. Len(frames) : frames[i].primary_optical_element \in band

\* f is the first frame of frames whose element is in band
IsFirstOfBand(f, frames, band) ==
    \E i \in 1 .. Len(frames) :
        /\ frames[i] = f
        /\ f.primary_optical_element \in band
        /\ \A j \in 1 .. i - 1 : frames[j].primary_optical_element \notin band

\* C7: rvb_frames returns [red, visual, blue], each the first frame of its band in
\* the listing, or raises 404 with no selection when a band has no frame.
BandSelection ==
    (fn.op = "rvb_frames" /\ fn.done) =>
        IF HasBand(fn.frames, BandRed) /\ HasBand(fn.frames, BandVisual)
           /\ HasBand(fn.frames, BandBlue)
        THEN /\ fn.out.exc = NoExc
             /\ Len(fn.out.frames) = 3
             /\ IsFirstOfBand(fn.out.frames[1], fn.frames, BandRed)
             /\ IsFirstOfBand(fn.out.frames[2], fn.frames, BandVisual)
             /\ IsFirstOfBand(fn.out.frames[3], fn.frames, BandBlue)
        ELSE /\ fn.out.exc.type = "ThumbnailAppException"
             /\ fn.out.exc.status_code = 404
             /\ fn.out.frames = << >>

\* a listing with two red frames, the blue one first: the selection reorders it
BandSelectionWitness ==
    /\ fn.op = "rvb_frames" /\ fn.done
    /\ fn.out.exc = NoExc
    /\ Len(fn.frames) = 4
    /\ fn.frames[1].primary_optical_element = "B"
    /\ fn.frames[2].primary_optical_element = "rp"
    /\ fn.frames[4].primary_optical_element = "R"
    /\ fn.out.frames[1] = fn.frames[2]

\* C8: when reproject_files has returned, the working set is [reference, aligned 1,
\* aligned 2] if both identifications were ok and nothing was raised, and else the
\* original 3 paths, every aligned file made in the attempt being off the disk.
AlignmentAllOrNothing ==
    \A r \in Runs :
        (run[r].color /\ run[r].pc = "convert_to_jpg") =>
            LET rs == run[r]
                original == rs.saved
                result == rs.paths.paths
            IN  /\ Len(original) = 3
                /\ Len(result) = 3
                /\ IF ~rs.warned /\ rs.ids = <<TRUE, TRUE>>
                   THEN /\ result = <<original[1], AlignedPath(original[2]),
                                      AlignedPath(original[3])>>
                        /\ SeqToSet(result) \subseteq disk
                   ELSE /\ result = original
                        /\ Cardinality(AlignedCreated(r)) \in {0, 1}
                        /\ AlignedCreated(r) \cap disk = {}
                        /\ SeqToSet(original) \subseteq disk

\* the second affineremap raised after the first aligned file was made
AlignmentAllOrNothingWitness ==
    \E r \in Runs :
        /\ run[r].color /\ run[r].pc = "convert_to_jpg"
        /\ run[r].warned
        /\ Cardinality(AlignedCreated(r)) = 1

\* C9: an error raised by make_transforms or affineremap never fails the run:
\* reproject_files returns, the run goes on to the conversion with 3 paths, and
\* whatever the run raises later is not the alignment error.
AlignmentNeverFailsRun ==
    \A r \in Runs :
        run[r].warned =>
            /\ run[r].pc \in {"reproject_return", "convert_to_jpg", "upload_to_s3",
                              "cleanup", "generate_url", "returned", "raised"}
            /\ run[r].pc = "reproject_return" => run[r].exc = NoExc
            /\ run[r].pc = "convert_to_jpg" =>
                   run[r].exc = NoExc /\ Len(run[r].paths.paths) = 3
            /\ run[r].pc \notin {"reproject_return", "convert_to_jpg"} =>
                   \E i \in 1 .. Len(run[r].calls) : run[r].calls[i] = "fits_to_jpg"
            /\ run[r].exc # NoExc => run[r].exc.message \in {"fits_to_jpg", "put_object"}

AlignmentNeverFailsRunWitness ==
    \E r \in Runs :
        /\ run[r].warned /\ run[r].pc = "returned"
        /\ run[r].created \cap disk = {}

\* C10: get_response raises 504 with {url, params} on a timeout, 502 on no response
\* or an upstream 5xx, 404 'Not found' on an upstream 404, the upstream status with
\* the JSON body (when it parses) on any other error, and nothing on success.
FetchClassification ==
    (fn.op = "get_response" /\ fn.done) =>
        LET o == fn.o
            e == fn.exc
        IN  IF o.kind = "ok" THEN e = NoExc
            ELSE /\ e.type = "ThumbnailAppException"
                 /\ IF o.kind = "timeout"
                    THEN /\ e.status_code = 504
                         /\ e.payload.url = fn.url /\ e.payload.params = fn.params
                    ELSE IF o.kind = "noresponse" \/ o.status \in 500 .. 599
                    THEN e.status_code = 502
                    ELSE IF o.status = 404
                    THEN e.status_code = 404 /\ e.message = "Not found"
                    ELSE /\ e.status_code = o.status
                         /\ e.payload.response = IF o.json THEN "json" ELSE None

FetchClassificationWitness ==
    /\ fn.op = "get_response" /\ fn.done
    /\ fn.o.kind = "http" /\ fn.o.status = 503
    /\ fn.exc.status_code = 502

\* C11: a non-color run that missed the cache and returned has made, after the frame
\* lookup and the existence check, exactly one raw-bytes fetch, one conversion, one
\* upload and one URL signing, in that order, and none of its files is on disk.
NonColorMissEndToEnd ==
    \A r \in Runs :
        (run[r].pc = "returned" /\ ~run[r].hit /\ ~run[r].color) =>
            /\ Len(run[r].calls) = 6
            /\ run[r].calls[1] \in LookupCalls
            /\ SubSeq(run[r].calls, 2, 6) =
                   <<"head_object", "GET raw", "fits_to_jpg", "put_object",
                     "generate_presigned_url">>
            /\ run[r].created \cap disk = {}
            /\ run[r].url = run[r].key
            /\ run[r].key \in store

\* the run made its frame file and its JPEG, and has returned
NonColorMissEndToEndWitness ==
    \E r \in Runs :
        /\ run[r].pc = "returned" /\ ~run[r].hit /\ ~run[r].color
        /\ { p[2] : p \in run[r].created } = {"frame", "jpg"}
        /\ disk = {}

\* the run raised out of the try block of generate_thumbnail
MissFailure(r) == run[r].pc = "raised" /\ run[r].key # NoKey

LastCall(r) == run[r].calls[Len(run[r].calls)]

\* the error is the one of the step that failed, the last call the run made
ErrorOfFailedStep(r) ==
    LET e == run[r].exc
    IN  /\ LastCall(r) \in {"GET frames/?request_id&reduction_level=91", "GET raw",
                            "fits_to_jpg", "put_object"}
        /\ LastCall(r) \in {"fits_to_jpg", "put_object"} =>
               e = OtherException(LastCall(r))
        /\ LastCall(r) = "GET raw" =>
               /\ e.type = "ThumbnailAppException"
               /\ e.status_code \in {400, 403, 404, 502, 504}
        /\ LastCall(r) = "GET frames/?request_id&reduction_level=91" =>
               /\ e.type = "ThumbnailAppException"
               /\ IF run[r].reqnum_frames = << >>
                  THEN e.status_code \in {400, 403, 404, 502, 504}
                  ELSE e.status_code = 404 /\ e.message = "RVB frames not found"

FailedAfterCleanup ==
    \A r \in Runs :
        MissFailure(r) =>
            /\ Registered(r) \cap disk = {}
            /\ run[r].jpg_path # NoPath => run[r].jpg_path \notin disk
            /\ ErrorOfFailedStep(r)
            /\ run[r].url = NoKey
            /\ "generate_presigned_url" \notin SeqToSet(run[r].calls)

\* an error pending in the finally block, or raised, stays the same error
ErrorUnchanged ==
    \A r \in Runs :
        (run[r].exc # NoExc /\ run[r].pc \in {"cleanup", "raised"}) =>
            \/ run'[r].pc = "raised" /\ run'[r].exc = run[r].exc
            \/ run'[r] = run[r]
            \/ run[r].pc = "raised" /\ run'[r] = IdleRun

\* C12: when the sibling listing, the band selection, a raw-bytes fetch, the
\* conversion or the upload raises, the finally block removes its targets first, then
\* the same error reaches the caller, and no URL is signed or returned.
FailurePropagatesAfterCleanup == []FailedAfterCleanup /\ [][ErrorUnchanged]_vars

\* the upload of a color run failed: five registered files and the JPEG were removed
FailurePropagatesAfterCleanupWitness ==
    \E r \in Runs :
        /\ MissFailure(r) /\ run[r].color
        /\ run[r].exc = OtherException("put_object")
        /\ run[r].jpg_path # NoPath
        /\ Cardinality(run[r].paths.all_paths) = 5

\* the two runs in flight have the same cache key
SameKey == run[1].key # NoKey /\ run[1].key = run[2].key

Terminated(r) == run[r].pc \in {"returned", "raised"}

\* the most calls one run makes, those of a color run whose alignment succeeds
MostCalls ==
    Len(<<"GET frames/id/", "head_object", "GET frames/?request_id&reduction_level=91",
          "GET raw", "GET raw", "GET raw", "make_transforms", "affineremap",
          "affineremap", "fits_to_jpg", "put_object", "generate_presigned_url">>)

\* the run r, where it uses the disk or the store the runs share, has its next step
\* whatever the other run has done
NotBlocked(r) ==
    /\ run[r].pc = "save_temp_file" => ENABLED save_temp_file(r)
    /\ run[r].pc = "make_transforms" => ENABLED make_transforms(r)
    /\ run[r].pc = "affineremap" => ENABLED affineremap(r)
    /\ run[r].pc = "reproject_return" => ENABLED reproject_return(r)
    /\ run[r].pc = "convert_to_jpg" => ENABLED convert_to_jpg(r)
    /\ run[r].pc = "upload_to_s3" => ENABLED upload_to_s3(r)
    /\ run[r].pc = "cleanup" => ENABLED cleanup(r)
    /\ run[r].pc = "generate_url" => ENABLED generate_url(r)

\* the conversion and the upload of the run r can succeed
CanSucceed(r) ==
    /\ run[r].pc = "convert_to_jpg" =>
           ENABLED (convert_to_jpg(r) /\ run'[r].exc = NoExc)
    /\ run[r].pc = "upload_to_s3" =>
           ENABLED (upload_to_s3(r) /\ run'[r].exc = NoExc)

\* C13: of two concurrent runs with the same key, started with the key absent, each
\* has its next step until it has returned or raised and makes a bounded number of
\* calls; at the conversion and at the upload it can succeed whatever the other run
\* has done; the store holds at most the one object of that key, holds it once a run
\* has a URL, and every URL returned is for that key.
SameKeyRaceBenign ==
    \A r \in Racers :
        /\ NotBlocked(r)
        /\ Len(run[r].calls) <= MostCalls
        /\ SameKey =>
               /\ CanSucceed(r)
               /\ store \subseteq {run[r].key}
               /\ run[r].url # NoKey => run[r].url = run[1].key /\ run[r].url \in store
               /\ run[r].pc = "returned" => run[r].url = run[r].key

\* both runs missed, both converted and uploaded, both returned the URL of the key
SameKeyRaceBenignWitness ==
    /\ SameKey
    /\ \A r \in Racers :
           /\ run[r].pc = "returned" /\ ~run[r].hit
           /\ "put_object" \in SeqToSet(run[r].calls)
           /\ run[r].url = run[1].key
    /\ store = {run[1].key}

\* the local files the run r still needs: the frame files it has saved, its working
\* set before the conversion, its JPEG before the upload
Needed(r) ==
    IF run[r].pc \in {"save_temp_file", "make_transforms", "affineremap",
                      "reproject_return"}
    THEN SeqToSet(run[r].saved) \cup SeqToSet(run[r].aligned_images)
    ELSE IF run[r].pc = "convert_to_jpg" THEN SeqToSet(run[r].paths.paths)
    ELSE IF run[r].pc = "upload_to_s3" THEN {run[r].jpg_path}
    ELSE {}

\* every path the run r removes, now or later: the aligned copies reproject_files
\* gives up and the targets of the finally block
Removable(r) ==
    SeqToSet(run[r].aligned_images) \cup CleanupTargets(run[r])

\* C14: the local paths two concurrent runs create, even for the same frame, file
\* name and key, are disjoint; no run removes a path the other created, and the
\* files a run still needs for its alignment, conversion or upload are on disk.
TempPathIsolation ==
    \A r, q \in Racers :
        r # q =>
            /\ run[r].created \cap run[q].created = {}
            /\ Removable(q) \cap run[r].created = {}
            /\ Needed(r) \subseteq disk

\* two color runs with the same key: one has finished its clean-up and returned,
\* the other, with files of the same names, is about to upload
TempPathIsolationWitness ==
    \E r, q \in Racers :
        /\ r # q /\ SameKey /\ run[r].color
        /\ run[q].pc = "returned" /\ ~run[q].hit
        /\ run[r].pc = "upload_to_s3"
        /\ { <<p[2], p[3]>> : p \in run[r].created } =
               { <<p[2], p[3]>> : p \in run[q].created }
        /\ Cardinality(run[r].created) = 6

IsPrefix(s, t) == Len(s) <= Len(t) /\ s = SubSeq(t, 1, Len(s))

\* the calls of a color run after the existence check, when n aligned copies are made
ColorCalls(n) ==
    <<"GET frames/?request_id&reduction_level=91", "GET raw", "GET raw", "GET raw",
      "make_transforms">>
    \o [i \in 1 .. n |-> "affineremap"]
    \o <<"fits_to_jpg", "put_object", "generate_presigned_url">>

\* the run r is on the color path after a cache miss
ColorMiss(r) ==
    /\ run[r].color /\ ~run[r].hit
    /\ run[r].pc \notin {"idle", "thumbnail", "bn_thumbnail", "handle_response",
                         "generate_thumbnail"}

BandSelectionFailed(r) ==
    ColorMiss(r) /\ run[r].exc.message = "RVB frames not found"

\* C15: a color run that missed the cache makes, in this order, one sibling listing
\* at reduction level 91, the band selection, the raw fetches of the frames selected
\* as [red, visual, blue], one alignment attempt with the first fetched (red) file
\* as reference, and the conversion; when the band selection fails no raw fetch has
\* been made and no file created.
ColorAcquisitionOrder ==
    \A r \in Runs :
        ColorMiss(r) =>
            LET rs == run[r]
                c  == SubSeq(rs.calls, 3, Len(rs.calls))
            IN  /\ \E n \in 0 .. 2 : IsPrefix(c, ColorCalls(n))
                /\ rs.todo # << >> =>
                       /\ rs.todo = rvb_frames(rs.reqnum_frames).frames
                       /\ rs.todo[1].primary_optical_element \in BandRed
                       /\ rs.todo[2].primary_optical_element \in BandVisual
                       /\ rs.todo[3].primary_optical_element \in BandBlue
                /\ rs.todo = << >> => rs.saved = << >> /\ rs.created = {}
                /\ \A i \in 1 .. Len(rs.saved) :
                       rs.saved[i] = << <<rs.reqno, i>>, "frame", rs.todo[i].filename >>
                /\ rs.pc \in {"make_transforms", "affineremap", "reproject_return"} =>
                       /\ Len(rs.saved) = 3
                       /\ rs.paths.paths = rs.saved
                       /\ \A i \in 1 .. Len(rs.aligned_images) :
                              rs.aligned_images[i] \in
                                  {AlignedPath(rs.saved[2]), AlignedPath(rs.saved[3])}
                /\ "fits_to_jpg" \in SeqToSet(rs.calls) =>
                       /\ "make_transforms" \in SeqToSet(rs.calls)
                       /\ rs.paths.paths[1] = rs.saved[1]
                /\ BandSelectionFailed(r) =>
                       /\ "GET raw" \notin SeqToSet(rs.calls)
                       /\ rs.created = {}
                       /\ Len(c) = 1

\* a color run has gone through the listing, the selection out of a listing that is
\* not in band order, the three fetches and the alignment, and converts
ColorAcquisitionOrderWitness ==
    \E r \in Runs :
        /\ ColorMiss(r) /\ run[r].pc = "upload_to_s3"
        /\ run[r].reqnum_frames[1].primary_optical_element = "V"
        /\ run[r].todo[1] = run[r].reqnum_frames[3]
        /\ Len(run[r].aligned_images) = 2

\* the band selection failed in a color run
BandSelectionFailedWitness ==
    \E r \in Runs : BandSelectionFailed(r) /\ run[r].pc = "raised"

\* the run r has taken the color acquisition path: it lists the sibling frames
TakesColorPath(r) ==
    "GET frames/?request_id&reduction_level=91" \in SeqToSet(run[r].calls)

\* C16: for every value of the color argument, a run that takes the color
\* acquisition path has a frame with a non-empty request id and a configuration
\* type that is eligible for color thumbnails.
ColorPathPassedColorChecks ==
    \A r \in Runs :
        TakesColorPath(r) =>
            /\ run[r].frame.request_id # 0
            /\ Upper(run[r].frame.configuration_type)
                   \in VALID_CONFIGURATION_TYPES_FOR_COLOR_THUMBS

\* C17: when the converter is called its input list has exactly 1 path in a
\* non-color run and exactly 3 paths in a color run, and every path of the list is
\* on disk.
ConverterInputs ==
    \A r \in Runs :
        run[r].pc = "convert_to_jpg" =>
            /\ Len(run[r].paths.paths) = IF run[r].color THEN 3 ELSE 1
            /\ Cardinality(SeqToSet(run[r].paths.paths)) = Len(run[r].paths.paths)
            /\ SeqToSet(run[r].paths.paths) \subseteq disk

\* the converter is about to be called on the reference and the two aligned copies
ConverterInputsWitness ==
    \E r \in Runs :
        /\ run[r].pc = "convert_to_jpg" /\ run[r].color
        /\ run[r].paths.paths[1][2] = "frame"
        /\ run[r].paths.paths[2][2] = "aligned"
        /\ run[r].paths.paths[3][2] = "aligned"

\* C18: after any sequence of Paths.set calls paths is the argument of the last call,
\* all_paths is the union of the elements of all the arguments, paths is within
\* all_paths, and a call removes nothing from all_paths.
PathsTracker ==
    fn.op = "Paths" =>
        /\ fn.p.paths = IF fn.args = << >> THEN << >> ELSE fn.args[Len(fn.args)]
        /\ fn.p.all_paths = UNION { SeqToSet(fn.args[i]) : i \in 1 .. Len(fn.args) }
        /\ SeqToSet(fn.p.paths) \subseteq fn.p.all_paths
        /\ \A i \in 1 .. Len(fn.args) : SeqToSet(fn.args[i]) \subseteq fn.p.all_paths

\* a path of the first call is not in the last one and is still in all_paths; the
\* other path was given three times
PathsTrackerWitness ==
    /\ fn.op = "Paths"
    /\ fn.args = << <<"/tmp/x", "/tmp/y">>, <<"/tmp/y", "/tmp/y">>, <<"/tmp/y">> >>
    /\ fn.p.all_paths = {"/tmp/x", "/tmp/y"}
    /\ fn.p.paths = <<"/tmp/y">>

\* C19: key_exists returns true only when head_object succeeds, which takes the key
\* to be stored, and false on not-found and on any other error; after an error the
\* run is not failed: it goes on as a cache miss to the acquisition.
ExistenceCheckNeverRaises ==
    (fn.op = "key_exists" /\ fn.done) =>
        /\ fn.exists <=> (~fn.head_raises /\ fn.key \in fn.objects)
        /\ (fn.head_raises \/ fn.key \notin fn.objects) =>
               /\ ~fn.exists
               /\ fn.next = IF fn.color THEN "frames_for_requestnum"
                            ELSE "save_temp_file"
        /\ fn.next \in {"generate_url", "frames_for_requestnum", "save_temp_file"}
        /\ fn.next = "generate_url" <=> fn.exists

\* the key is stored and head_object fails for another reason: a miss
ExistenceCheckNeverRaisesWitness ==
    /\ fn.op = "key_exists" /\ fn.done
    /\ fn.key \in fn.objects /\ fn.head_raises
    /\ ~fn.exists /\ fn.next = "save_temp_file"

Count(calls, what) == Cardinality({ i \in 1 .. Len(calls) : calls[i] = what })

\* the outbound fetches: the frame metadata, the sibling listing, the raw bytes
FetchCalls ==
    LookupCalls \cup {"GET frames/?request_id&reduction_level=91", "GET raw"}

\* the frame files the run r has opened, one for each raw-bytes fetch it has issued
FrameFiles(r) == { p \in run[r].created : p[2] = "frame" }

\* a get_response of the run r has failed
FetchFailed(r) ==
    /\ run[r].exc.type = "ThumbnailAppException"
    /\ run[r].exc.message # "RVB frames not found"
    /\ run[r].pc \in {"cleanup", "raised"}
    /\ run[r].frames_count \in {<< >>, <<1>>}
    /\ run[r].pc = "raised" /\ run[r].key = NoKey => ~FrameLoaded(r)

FetchedOnce ==
    \A r \in Runs :
        /\ Count(run[r].calls, "GET frames/id/")
               + Count(run[r].calls, "GET frames/?basename_exact") <= 1
        /\ Count(run[r].calls, "GET frames/?request_id&reduction_level=91") <= 1
        /\ Count(run[r].calls, "GET raw") = Cardinality(FrameFiles(r))
        /\ Cardinality({ p[3] : p \in FrameFiles(r) }) = Cardinality(FrameFiles(r))
        /\ { p[3] : p \in FrameFiles(r) } \subseteq
               { run[r].todo[i].filename : i \in 1 .. Len(run[r].todo) }
        /\ FetchFailed(r) =>
               /\ LastCall(r) \in FetchCalls
               /\ Count(run[r].calls, "fits_to_jpg") = 0
               /\ Count(run[r].calls, "put_object") = 0
               /\ LastCall(r) = "GET raw" =>
                      /\ Count(run[r].calls, "GET raw") = Len(run[r].saved) + 1
                      /\ Len(run[r].saved) < Len(run[r].todo)

\* once a call has raised out of the run, the run makes no further call
NoCallAfterFailure ==
    \A r \in Runs :
        (run[r].exc # NoExc /\ run[r].pc \in {"cleanup", "raised"}) =>
            run'[r].calls = run[r].calls \/ run'[r] = IdleRun

\* C20: a run issues the frame lookup, the sibling listing and the raw-bytes fetch of
\* each frame at most once; after a fetch has failed it issues no further fetch, no
\* conversion and no upload, and in a color run the frames after the one whose fetch
\* failed are not fetched.
NoInternalRetries == []FetchedOnce /\ [][NoCallAfterFailure]_vars

\* the fetch of the second selected frame of a color run failed: two raw fetches
NoInternalRetriesWitness ==
    \E r \in Runs :
        /\ run[r].color /\ FetchFailed(r) /\ run[r].pc = "raised"
        /\ LastCall(r) = "GET raw"
        /\ Len(run[r].saved) = 1
        /\ Count(run[r].calls, "GET raw") = 2

====
